---- MODULE Spec2Model ----
(***************************************************************************)
(* Conway's Game of Life on the micro:bit v2 5x5 LED matrix (src/main.rs). *)
(*                                                                         *)
(* The model has three parts:                                              *)
(*   - the pure helpers of main.rs (pressed, randomize_state,              *)
(*     complement_state, ResetTimer) and of the life module (life, done),  *)
(*     as operators;                                                       *)
(*   - the event loop of main: one action for display.show and one action  *)
(*     per branch of the if / else-if chain, each followed by the          *)
(*     unconditional complement_timer.tick(false);                         *)
(*   - a harness that applies the ResetTimer methods to a timer of any     *)
(*     total, for the statements about ResetTimer alone.                   *)
(***************************************************************************)
EXTENDS Integers, Sequences, FiniteSets, TLC

VARIABLES
    state,            \* main: LEDState, the 5x5 board
    reset_timer,      \* main: ResetTimer of the "dead" board delay
    complement_timer, \* main: ResetTimer of the complement cooldown
    pc,               \* main: position in the loop body, "show" or "decide"
    shown,            \* the boards handed to display.show so far (count, last board)
    ev,               \* what the last loop iteration did (history)
    hist,             \* counters over the past iterations (history)
    tm,               \* harness: a ResetTimer
    tm_out,           \* harness: the last method called on tm and what it returned
    call              \* harness: the last call of pressed, randomize_state or life

vars == <<state, reset_timer, complement_timer, pc, shown, ev, hist, tm, tm_out, call>>
main_vars == <<state, reset_timer, complement_timer, pc, shown, ev, hist>>

----------------------------------------------------------------------------
(* Constants of main.rs *)

ROW_COUNT == 5
REFRESH_RATE_MS == 100
DEATH_RESET_RATE_MS == 500
COMPLEMENT_RESET_RATE_MS == 500
LED_COUNT == ROW_COUNT * ROW_COUNT

(* Bounds of the model *)

\* The largest value of the harness timer's u32 fields: u32::MAX, with the
\* width scaled down. An increment beyond it overflows.
UMax == 7
\* The frame counters of hist stop counting here.
HistCap == 8
\* The count of boards handed to display.show stops here.
ShownCap == 2

Min(a, b) == IF a < b THEN a ELSE b

----------------------------------------------------------------------------
(* LEDState = [[u8; ROW_COUNT]; ROW_COUNT] *)

Rows == 0 .. (ROW_COUNT - 1)

\* [[0; 5]; 5]
ZeroState == [r \in Rows |-> [c \in Rows |-> 0]]

\* A u32 is kept as its two 16-bit halves, so that bit 31 is representable.
\* The draws of the hardware generator the model enumerates.
Draws ==
    { [hi |-> 0,     lo |-> 0],        \* 0x0000_0000: all dead
      [hi |-> 65024, lo |-> 0],        \* 0xFE00_0000: only bits 25..31 set
      [hi |-> 65535, lo |-> 65535],    \* 0xFFFF_FFFF: all alive
      [hi |-> 0,     lo |-> 14336],    \* bits 11,12,13: a blinker in row 2
      [hi |-> 32768, lo |-> 1],        \* bit 31 and bit 0: one live cell
      [hi |-> 0,     lo |-> 6336] }    \* bits 6,7,11,12: a 2x2 block

\* Mutant of BitAt: (random_number & 1) << i >> i, the lowest bit every time.
BitAt_lowest(w, i) == w.lo % 2

\* ((random_number & 1 << i) >> i) as u8
BitAt(w, i) ==
    IF i < 16 THEN (w.lo \div (2 ^ i)) % 2
              ELSE (w.hi \div (2 ^ (i - 16))) % 2

\* The loop of randomize_state from index i on.
RECURSIVE RandomizeFrom(_, _, _)
RandomizeFrom(w, st, i) ==
    IF i >= LED_COUNT THEN st
    ELSE LET row == i \div ROW_COUNT
             col == i % ROW_COUNT
         IN  RandomizeFrom(w, [st EXCEPT ![row][col] = BitAt(w, i)], i + 1)

\* randomize_state(random_gen, state), w being the one value drawn.
randomize_state(w, st) == RandomizeFrom(w, st, 0)

\* *item ^= 1 on a u8
Xor1(x) == IF x % 2 = 0 THEN x + 1 ELSE x - 1

complement_state(st) == [r \in Rows |-> [c \in Rows |-> Xor1(st[r][c])]]

----------------------------------------------------------------------------
(* mod life: the module is declared in main.rs (mod life;) and its file is  *)
(* not part of the sources at hand; modelled from the specification.        *)

\* life::done: every cell is dead.
done(st) == \A r \in Rows : \A c \in Rows : st[r][c] = 0

\* Mutant of LiveNeighbours: the board wraps around at its edges.
LiveNeighbours_wrap(st, r, c) ==
    Cardinality({ p \in Rows \X Rows :
                    /\ p # <<r, c>>
                    /\ (p[1] - r) % ROW_COUNT \in {ROW_COUNT - 1, 0, 1}
                    /\ (p[2] - c) % ROW_COUNT \in {ROW_COUNT - 1, 0, 1}
                    /\ st[p[1]][p[2]] # 0 })

\* The live cells among the 8 neighbours of (r, c) that lie on the board.
LiveNeighbours(st, r, c) ==
    Cardinality({ p \in Rows \X Rows :
                    /\ p # <<r, c>>
                    /\ p[1] - r \in {-1, 0, 1}
                    /\ p[2] - c \in {-1, 0, 1}
                    /\ st[p[1]][p[2]] # 0 })

\* life::life: one generation, B3/S23, computed from the board as it was.
life(st) ==
    [r \in Rows |-> [c \in Rows |->
        LET n == LiveNeighbours(st, r, c)
        IN  IF st[r][c] # 0
              THEN (IF n \in {2, 3} THEN 1 ELSE 0)
              ELSE (IF n = 3 THEN 1 ELSE 0)]]

----------------------------------------------------------------------------
(* ButtonPress::pressed *)

\* Three results of is_low(), in the order they are read.
Samples == [1..3 -> BOOLEAN]

\* P0_14 (button A): self.is_low() & self.is_low() & self.is_low();
\* & does not short-circuit.
pressed(s) == s[1] /\ s[2] /\ s[3]

\* Mutant of pressed_b: a majority of the three reads is enough.
pressed_b_majority(s) == (s[1] /\ s[2]) \/ (s[1] /\ s[3]) \/ (s[2] /\ s[3])

\* P0_23 (button B): the same expression, in its own impl.
pressed_b(s) == s[1] /\ s[2] /\ s[3]

\* The pin reads one call of pressed() makes: every operand of & is evaluated.
pressed_reads(s) == Len(s)

----------------------------------------------------------------------------
(* ResetTimer *)

ResetTimer_new(frames, start) == [total |-> frames, current |-> start]

\* Mutant of reset: the count is left as it is.
reset_noop(t) == t

reset(t) == [t EXCEPT !.current = 0]

finished(t) == t.current = t.total

\* self.current += 1 on a u32 of the given largest value, overflow wrapping.
Incr(x, umax) == (x + 1) % (umax + 1)

\* Mutant of tick_w: the count is not clamped at total.
tick_w_noclamp(t, reset_if_finished, umax) ==
    LET c1 == Incr(t.current, umax)
        is_done == c1 = t.total
        t2 == [t EXCEPT !.current = c1]
    IN  [timer |-> IF is_done /\ reset_if_finished THEN reset(t2) ELSE t2,
         ret   |-> is_done]

\* Mutant of tick_w: is_done is taken before the increment.
tick_w_stale(t, reset_if_finished, umax) ==
    LET c1 == Incr(t.current, umax)
        c2 == IF c1 > t.total THEN t.total ELSE c1
        is_done == t.current = t.total
        t2 == [t EXCEPT !.current = c2]
    IN  [timer |-> IF is_done /\ reset_if_finished THEN reset(t2) ELSE t2,
         ret   |-> is_done]

\* Mutant of tick_w: an expired timer resets itself whatever the flag.
tick_w_always_reset(t, reset_if_finished, umax) ==
    LET c1 == Incr(t.current, umax)
        c2 == IF c1 > t.total THEN t.total ELSE c1
        is_done == c2 = t.total
        t2 == [t EXCEPT !.current = c2]
    IN  [timer |-> IF is_done THEN reset(t2) ELSE t2,
         ret   |-> is_done]

\* tick: the timer after the call and the value returned.
tick_w(t, reset_if_finished, umax) ==
    LET c1 == Incr(t.current, umax)
        c2 == IF c1 > t.total THEN t.total ELSE c1
        is_done == c2 = t.total
        t2 == [t EXCEPT !.current = c2]
    IN  [timer |-> IF is_done /\ reset_if_finished THEN reset(t2) ELSE t2,
         ret   |-> is_done]

\* Mutant of tick: reset_if_finished is ignored, the timer never resets itself.
tick_no_auto_reset(t, reset_if_finished) == tick_w(t, FALSE, UMax)

\* tick in main, whose timers count to 5, far from u32::MAX.
tick(t, reset_if_finished) == tick_w(t, reset_if_finished, UMax)

----------------------------------------------------------------------------
(* main: what one loop iteration calls, as a sequence of names *)

Range(s) == { s[i] : i \in DOMAIN s }
Count(s, x) == Cardinality({ i \in DOMAIN s : s[i] = x })

\* Mutant of SelectBranch: button B is tested before button A.
SelectBranch_BFirst(a, b, dead) ==
    IF b THEN "B"
    ELSE IF a THEN "A"
    ELSE IF dead THEN "dead"
    ELSE "life"

\* Mutant of SelectBranch: the test of life::done is missing.
SelectBranch_NoDone(a, b, dead) ==
    IF a THEN "A"
    ELSE IF b THEN "B"
    ELSE "life"

\* Mutant of SelectBranch: life::done is tested before button B.
SelectBranch_DeadBeforeB(a, b, dead) ==
    IF a THEN "A"
    ELSE IF dead THEN "dead"
    ELSE IF b THEN "B"
    ELSE "life"

\* The if / else-if chain of the loop body: the branch that runs.
SelectBranch(a, b, dead) ==
    IF a THEN "A"
    ELSE IF b THEN "B"
    ELSE IF dead THEN "dead"
    ELSE "life"

\* The conditions the chain evaluates before it enters that branch.
SelectCalls(a, b) ==
    IF a THEN <<"button_a.pressed">>
    ELSE IF b THEN <<"button_a.pressed", "button_b.pressed">>
    ELSE <<"button_a.pressed", "button_b.pressed", "life::done">>

\* Mutant of BranchA: reset_timer.reset() is missing.
BranchA_NoTimerReset(st, rt, ct, w) ==
    [state            |-> randomize_state(w, st),
     reset_timer      |-> rt,
     complement_timer |-> ct,
     calls            |-> <<"randomize_state">>]

\* if button_a.pressed() { ... }
BranchA(st, rt, ct, w) ==
    [state            |-> randomize_state(w, st),
     reset_timer      |-> reset(rt),
     complement_timer |-> ct,
     calls            |-> <<"reset_timer.reset", "randomize_state">>]

\* Mutant of BranchB: the complement does not wait for complement_timer.
BranchB_NoCooldown(st, rt, ct) ==
    [state            |-> complement_state(st),
     reset_timer      |-> reset(rt),
     complement_timer |-> reset(ct),
     calls            |-> <<"reset_timer.reset", "complement_timer.finished",
                            "complement_state", "complement_timer.reset">>]

\* Mutant of BranchB: complement_timer is not reset after the complement.
BranchB_NoReset(st, rt, ct) ==
    IF finished(ct)
      THEN [state            |-> complement_state(st),
            reset_timer      |-> reset(rt),
            complement_timer |-> ct,
            calls            |-> <<"reset_timer.reset", "complement_timer.finished",
                                   "complement_state">>]
      ELSE [state            |-> st,
            reset_timer      |-> reset(rt),
            complement_timer |-> ct,
            calls            |-> <<"reset_timer.reset", "complement_timer.finished">>]

\* else if button_b.pressed() { ... }
BranchB(st, rt, ct) ==
    IF finished(ct)
      THEN [state            |-> complement_state(st),
            reset_timer      |-> reset(rt),
            complement_timer |-> reset(ct),
            calls            |-> <<"reset_timer.reset", "complement_timer.finished",
                                   "complement_state", "complement_timer.reset">>]
      ELSE [state            |-> st,
            reset_timer      |-> reset(rt),
            complement_timer |-> ct,
            calls            |-> <<"reset_timer.reset", "complement_timer.finished">>]

\* Mutant of BranchDead: reset_timer.tick(false), the timer stays expired.
BranchDead_NoAutoReset(st, rt, ct, w) ==
    LET tk == tick(rt, FALSE)
    IN  IF tk.ret
          THEN [state            |-> randomize_state(w, st),
                reset_timer      |-> tk.timer,
                complement_timer |-> ct,
                calls            |-> <<"reset_timer.tick", "randomize_state">>]
          ELSE [state            |-> st,
                reset_timer      |-> tk.timer,
                complement_timer |-> ct,
                calls            |-> <<"reset_timer.tick">>]

\* else if life::done(&state) { ... }
BranchDead(st, rt, ct, w) ==
    LET tk == tick(rt, TRUE)
    IN  IF tk.ret
          THEN [state            |-> randomize_state(w, st),
                reset_timer      |-> tk.timer,
                complement_timer |-> ct,
                calls            |-> <<"reset_timer.tick", "randomize_state">>]
          ELSE [state            |-> st,
                reset_timer      |-> tk.timer,
                complement_timer |-> ct,
                calls            |-> <<"reset_timer.tick">>]

\* else { ... }
BranchLife(st, rt, ct) ==
    [state            |-> life(st),
     reset_timer      |-> reset(rt),
     complement_timer |-> ct,
     calls            |-> <<"reset_timer.reset", "life::life">>]

\* Mutant of EndOfFrame: complement_timer.tick(true).
EndOfFrame_AutoReset(br) ==
    [br EXCEPT !.complement_timer = tick(br.complement_timer, TRUE).timer,
               !.calls = br.calls \o <<"complement_timer.tick">>]

\* Mutant of EndOfFrame: complement_timer is not ticked.
EndOfFrame_NoTick(br) == br

\* complement_timer.tick(false), after whichever branch ran.
EndOfFrame(br) ==
    [br EXCEPT !.complement_timer = tick(br.complement_timer, FALSE).timer,
               !.calls = br.calls \o <<"complement_timer.tick">>]

----------------------------------------------------------------------------
(* History of the iterations, kept beside the program's state *)

\* since_compl: the number of iterations since the one that last called
\*              complement_state (1 right after it), -1 when none has;
\* b_seen:      some iteration has taken the B branch;
\* dead_run:    the number of iterations in a row, up to now, that took the
\*              dead branch without randomizing;
\* dead_from0:  reset_timer.current was 0 when that run began;
\* b_quiet:     the number of iterations in a row, up to now, that took the
\*              B branch without complementing.
NoHist == [since_compl |-> -1, b_seen |-> FALSE, dead_run |-> 0, dead_from0 |-> TRUE,
           b_quiet |-> 0]

\* branch: the branch the last iteration took ("none" before the first one);
\* a, b:   what pressed() is for each button in that iteration;
\* calls:  what the iteration called, in order;
\* pre:    the two counts, done(state) and hist as that iteration found them.
NoEv == [branch |-> "none", a |-> FALSE, b |-> FALSE, calls |-> <<>>,
         pre |-> [rt |-> 0, ct |-> 0, dead |-> FALSE, hist |-> NoHist]]

NextHist(h, branch, calls, rt) ==
    LET fired == "randomize_state" \in Range(calls)
    IN  [since_compl |-> IF "complement_state" \in Range(calls) THEN 1
                         ELSE IF h.since_compl < 0 THEN -1
                         ELSE Min(h.since_compl + 1, HistCap),
         b_seen      |-> h.b_seen \/ branch = "B",
         dead_run    |-> IF branch = "dead" /\ ~fired
                           THEN Min(h.dead_run + 1, HistCap) ELSE 0,
         dead_from0  |-> IF branch = "dead" /\ ~fired
                           THEN (IF h.dead_run = 0 THEN rt.current = 0 ELSE h.dead_from0)
                           ELSE TRUE,
         b_quiet     |-> IF branch = "B" /\ "complement_state" \notin Range(calls)
                           THEN Min(h.b_quiet + 1, HistCap) ELSE 0]

----------------------------------------------------------------------------
(* main *)

\* ResetTimer::new(DEATH_RESET_RATE_MS / REFRESH_RATE_MS, 0)
reset_timer_init ==
    ResetTimer_new(DEATH_RESET_RATE_MS \div REFRESH_RATE_MS, 0)

\* Mutant of complement_timer_init: the timer starts at 0, like reset_timer.
complement_timer_init_zero ==
    ResetTimer_new(COMPLEMENT_RESET_RATE_MS \div REFRESH_RATE_MS, 0)

\* ResetTimer::new(COMPLEMENT_RESET_RATE_MS / REFRESH_RATE_MS, same)
complement_timer_init ==
    ResetTimer_new(COMPLEMENT_RESET_RATE_MS \div REFRESH_RATE_MS,
                   COMPLEMENT_RESET_RATE_MS \div REFRESH_RATE_MS)

\* The harness timer while the program runs: not used.
\* No call made yet.
NoCall == [fn |-> "none", pin |-> "none", samples |-> <<>>, ret |-> FALSE,
           reads |-> 0, before_samples |-> <<>>, bits |-> {}, before |-> ZeroState]

IdleHarness ==
    /\ tm = ResetTimer_new(0, 0)
    /\ tm_out = [op |-> "new", ret |-> FALSE, run |-> 0, pre |-> 0]
    /\ call = NoCall

\* Mutant of Init: the loop body begins with the decision, display.show
\* comes at its end.
Init_DecideFirst ==
    /\ \E w \in Draws : state = randomize_state(w, ZeroState)
    /\ reset_timer = reset_timer_init
    /\ complement_timer = complement_timer_init
    /\ pc = "decide"
    /\ shown = [n |-> 0, board |-> ZeroState]
    /\ ev = NoEv
    /\ hist = NoHist
    /\ IdleHarness

\* main up to the loop: the board is all zeros, then randomized once.
Init ==
    /\ \E w \in Draws : state = randomize_state(w, ZeroState)
    /\ reset_timer = reset_timer_init
    /\ complement_timer = complement_timer_init
    /\ pc = "show"
    /\ shown = [n |-> 0, board |-> ZeroState]
    /\ ev = NoEv
    /\ hist = NoHist
    /\ IdleHarness

\* display.show(&mut timer, state, REFRESH_RATE_MS)
Show ==
    /\ pc = "show"
    /\ pc' = "decide"
    /\ shown' = [n |-> Min(shown.n + 1, ShownCap), board |-> state]
    /\ UNCHANGED <<state, reset_timer, complement_timer, ev, hist, tm, tm_out, call>>

\* The rest of the loop body, br being the outcome of the branch that ran.
Commit(sa, sb, br) ==
    LET name == SelectBranch(pressed(sa), pressed_b(sb), done(state))
        out  == EndOfFrame(br)
        calls == SelectCalls(pressed(sa), pressed_b(sb)) \o out.calls
    IN  /\ state' = out.state
        /\ reset_timer' = out.reset_timer
        /\ complement_timer' = out.complement_timer
        /\ pc' = "show"
        /\ ev' = [branch |-> name, a |-> pressed(sa), b |-> pressed_b(sb),
                  calls |-> calls,
                  pre |-> [rt |-> reset_timer.current,
                           ct |-> complement_timer.current,
                           dead |-> done(state),
                           hist |-> hist]]
        /\ hist' = NextHist(hist, name, calls, reset_timer)
        /\ UNCHANGED <<shown, tm, tm_out, call>>

FrameA ==
    /\ pc = "decide"
    /\ \E sa \in Samples, sb \in Samples, w \in Draws :
         /\ SelectBranch(pressed(sa), pressed_b(sb), done(state)) = "A"
         /\ Commit(sa, sb, BranchA(state, reset_timer, complement_timer, w))

FrameB ==
    /\ pc = "decide"
    /\ \E sa \in Samples, sb \in Samples :
         /\ SelectBranch(pressed(sa), pressed_b(sb), done(state)) = "B"
         /\ Commit(sa, sb, BranchB(state, reset_timer, complement_timer))

FrameDead ==
    /\ pc = "decide"
    /\ \E sa \in Samples, sb \in Samples, w \in Draws :
         /\ SelectBranch(pressed(sa), pressed_b(sb), done(state)) = "dead"
         /\ Commit(sa, sb, BranchDead(state, reset_timer, complement_timer, w))

FrameLife ==
    /\ pc = "decide"
    /\ \E sa \in Samples, sb \in Samples :
         /\ SelectBranch(pressed(sa), pressed_b(sb), done(state)) = "life"
         /\ Commit(sa, sb, BranchLife(state, reset_timer, complement_timer))

Next == Show \/ FrameA \/ FrameB \/ FrameDead \/ FrameLife

Spec == Init /\ [][Next]_vars

----------------------------------------------------------------------------
(* The loop body from any timer counts: the board is one randomize_state   *)
(* can produce, each timer has its total of main and any count up to it.   *)

InitFrame ==
    /\ \E w \in Draws : state = randomize_state(w, ZeroState)
    /\ \E c \in 0 .. reset_timer_init.total :
         reset_timer = ResetTimer_new(reset_timer_init.total, c)
    /\ \E c \in 0 .. complement_timer_init.total :
         complement_timer = ResetTimer_new(complement_timer_init.total, c)
    /\ pc = "show"
    /\ shown = [n |-> 0, board |-> ZeroState]
    /\ ev = NoEv
    /\ hist = NoHist
    /\ IdleHarness

SpecFrame == InitFrame /\ [][Next]_vars

----------------------------------------------------------------------------
(* Harness: the methods of ResetTimer on a timer of any total up to UMax.  *)
(* tm_out.run counts the tick(false) calls made in a row since current was *)
(* 0 (by new or by reset), and is -1 when the calls did not start there;   *)
(* tm_out.pre is current as the call found it.                             *)

InitTimer ==
    /\ state = ZeroState
    /\ reset_timer = reset_timer_init
    /\ complement_timer = complement_timer_init
    /\ pc = "harness"
    /\ shown = [n |-> 0, board |-> ZeroState]
    /\ ev = NoEv
    /\ hist = NoHist
    /\ \E total \in 0 .. UMax : \E start \in 0 .. total :
         /\ tm = ResetTimer_new(total, start)
         /\ tm_out = [op |-> "new", ret |-> FALSE,
                      run |-> IF start = 0 THEN 0 ELSE -1, pre |-> start]
    /\ call = NoCall

\* timer.reset()
T_reset ==
    /\ pc = "harness"
    /\ tm_out.op # "panic"
    /\ tm' = reset(tm)
    /\ tm_out' = [op |-> "reset", ret |-> FALSE, run |-> 0, pre |-> tm.current]
    /\ UNCHANGED <<main_vars, call>>

\* timer.tick(flag); where self.current += 1 overflows, the build without
\* overflow checks wraps.
T_tick ==
    /\ pc = "harness"
    /\ tm_out.op # "panic"
    /\ \E flag \in BOOLEAN :
         LET tk == tick_w(tm, flag, UMax)
         IN  /\ tm' = tk.timer
             /\ tm_out' = [op  |-> IF flag THEN "tick(true)" ELSE "tick(false)",
                           ret |-> tk.ret,
                           run |-> IF flag
                                     THEN (IF tk.timer.current = 0 THEN 0 ELSE -1)
                                     ELSE IF tm_out.run < 0 THEN -1
                                     ELSE Min(tm_out.run + 1, UMax + 1),
                           pre |-> tm.current]
    /\ UNCHANGED <<main_vars, call>>

\* timer.tick(flag) where self.current += 1 overflows, in the build with
\* overflow checks: the program panics and the timer is left as it was.
T_tick_panic ==
    /\ pc = "harness"
    /\ tm_out.op # "panic"
    /\ tm.current + 1 > UMax
    /\ tm_out' = [tm_out EXCEPT !.op = "panic"]
    /\ UNCHANGED <<tm, state, reset_timer, complement_timer, pc, shown, ev, hist, call>>

NextTimer == T_reset \/ T_tick \/ T_tick_panic

SpecTimer == InitTimer /\ [][NextTimer]_vars

----------------------------------------------------------------------------
(* Harness: randomize_state and life applied to boards of choice. A draw   *)
(* is given by the set of its bits that are 1.                             *)

\* The bits a draw of the harness may have set.
BitChoices == {0, 6, 7, 11, 12, 13, 24, 25, 31}

RECURSIVE SumPow2(_, _)
\* The sum of 2^(i - base) over the i of S.
SumPow2(S, base) ==
    IF S = {} THEN 0
    ELSE LET i == CHOOSE x \in S : TRUE
         IN  2 ^ (i - base) + SumPow2(S \ {i}, base)

\* The u32 whose bits that are 1 are those of S, as its two halves.
WordOf(S) == [hi |-> SumPow2({i \in S : i >= 16}, 16),
              lo |-> SumPow2({i \in S : i < 16}, 0)]

InitBoard ==
    /\ state \in {ZeroState, complement_state(ZeroState)}
    /\ reset_timer = reset_timer_init
    /\ complement_timer = complement_timer_init
    /\ pc = "board"
    /\ shown = [n |-> 0, board |-> ZeroState]
    /\ ev = NoEv
    /\ hist = NoHist
    /\ IdleHarness

\* randomize_state(&mut random_gen, &mut state), the generator giving WordOf(S).
P_randomize ==
    /\ pc = "board"
    /\ \E S \in SUBSET BitChoices :
         /\ state' = randomize_state(WordOf(S), state)
         /\ call' = [NoCall EXCEPT !.fn = "randomize_state", !.bits = S]
    /\ UNCHANGED <<reset_timer, complement_timer, pc, shown, ev, hist, tm, tm_out>>

\* life::life(&mut state)
P_life ==
    /\ pc = "board"
    /\ state' = life(state)
    /\ call' = [NoCall EXCEPT !.fn = "life::life", !.before = state]
    /\ UNCHANGED <<reset_timer, complement_timer, pc, shown, ev, hist, tm, tm_out>>

NextBoard == P_randomize \/ P_life

SpecBoard == InitBoard /\ [][NextBoard]_vars

----------------------------------------------------------------------------
(* Harness: pressed() called on either button, with any three pin reads.   *)
(* call.before_samples are the reads of the call made before this one.     *)

Pins == {"P0_14", "P0_23"}

InitButton ==
    /\ state = ZeroState
    /\ reset_timer = reset_timer_init
    /\ complement_timer = complement_timer_init
    /\ pc = "button"
    /\ shown = [n |-> 0, board |-> ZeroState]
    /\ ev = NoEv
    /\ hist = NoHist
    /\ IdleHarness

\* button.pressed(), the pin reading s[1], s[2], s[3] in turn.
P_pressed ==
    /\ pc = "button"
    /\ \E pin \in Pins, s \in Samples :
         call' = [NoCall EXCEPT
                    !.fn = "pressed", !.pin = pin, !.samples = s,
                    !.ret = IF pin = "P0_14" THEN pressed(s) ELSE pressed_b(s),
                    !.reads = pressed_reads(s),
                    !.before_samples = call.samples]
    /\ UNCHANGED <<main_vars, tm, tm_out>>

NextButton == P_pressed

SpecButton == InitButton /\ [][NextButton]_vars

\* The program and the harness side by side: every state either can reach.
SpecAll == (Init \/ InitTimer) /\ [][Next \/ NextTimer]_vars

----------------------------------------------------------------------------
(* Vocabulary of the properties *)

Called(e, x) == x \in Range(e.calls)

\* A board randomize_state can leave, whatever the board was before.
IsRandomized(st) == \E w \in Draws : st = randomize_state(w, ZeroState)

\* Every cell of st2 is the opposite of the cell of st1.
IsFlipped(st1, st2) ==
    \A r \in Rows : \A c \in Rows :
        /\ st1[r][c] \in {0, 1}
        /\ st2[r][c] = 1 - st1[r][c]

TimerBound(t) == 0 <= t.current /\ t.current <= t.total

----------------------------------------------------------------------------
(* Properties of the loop body *)

\* C1: in an iteration where button A is pressed, whatever button B is and
\* whether or not the board is all dead, the A branch runs: the board is
\* replaced by a fresh randomization, reset_timer ends at 0 and was not
\* ticked, the board is not complemented, and complement_timer is not reset
\* but ticked once.
C1_ButtonAFirst ==
    [][ (pc = "decide" /\ ev'.a) =>
          /\ ev'.branch = "A"
          /\ Count(ev'.calls, "randomize_state") = 1
          /\ IsRandomized(state')
          /\ reset_timer'.current = 0
          /\ ~Called(ev', "reset_timer.tick")
          /\ ~Called(ev', "complement_state")
          /\ ~Called(ev', "life::life")
          /\ ~Called(ev', "complement_timer.reset")
          /\ Count(ev'.calls, "complement_timer.tick") = 1
          /\ complement_timer'.current =
               Min(complement_timer.current + 1, complement_timer.total) ]_vars

\* An iteration with both buttons pressed on an all-dead board whose
\* reset_timer was counting took the A branch and left a live cell.
C1_Witness ==
    /\ ev.a /\ ev.b /\ ev.pre.dead /\ ev.pre.rt > 0
    /\ ev.branch = "A"
    /\ ~done(state)

\* C2: in an iteration where button B is pressed and A is not, reset_timer is
\* reset to 0, and the board changes iff complement_timer is finished: if it
\* is, every cell is flipped and complement_timer is reset (then ticked); if
\* it is not, the board is left as it was, with no complement, Life step or
\* randomization, and complement_timer is not reset.
C2_ButtonB ==
    [][ (pc = "decide" /\ ~ev'.a /\ ev'.b) =>
          /\ ev'.branch = "B"
          /\ reset_timer'.current = 0
          /\ ~Called(ev', "reset_timer.tick")
          /\ (state' # state) <=> finished(complement_timer)
          /\ ~Called(ev', "life::life")
          /\ ~Called(ev', "randomize_state")
          /\ IF finished(complement_timer)
               THEN /\ IsFlipped(state, state')
                    /\ Count(ev'.calls, "complement_state") = 1
                    /\ Count(ev'.calls, "complement_timer.reset") = 1
                    /\ complement_timer'.current = 1
               ELSE /\ state' = state
                    /\ ~Called(ev', "complement_state")
                    /\ ~Called(ev', "complement_timer.reset")
                    /\ complement_timer'.current = complement_timer.current + 1 ]_vars

\* A B press during the cooldown, on an all-dead board whose reset_timer was
\* counting: nothing was complemented.
C2_Witness ==
    /\ ev.branch = "B" /\ ~ev.a /\ ev.b
    /\ ev.pre.ct < complement_timer.total
    /\ ev.pre.rt > 0
    /\ ~Called(ev, "complement_state")

\* C3: two complements are never closer than 5 iterations: an iteration that
\* complements the board is the first to do so, or comes at least 5
\* iterations after the last one that did.
C3_ComplementCooldown ==
    Called(ev, "complement_state") =>
        \/ ev.pre.hist.since_compl = -1
        \/ ev.pre.hist.since_compl >= 5

\* A complement exactly 5 iterations after the one before.
C3_Witness ==
    /\ Called(ev, "complement_state")
    /\ ev.pre.hist.since_compl = 5

\* C4: in a run of iterations with no button pressed on an all-dead board,
\* begun with reset_timer at 0, the first 4 leave the board as it is and the
\* 5th randomizes it and leaves reset_timer at 0, so that the next run begins
\* the same way.
C4_DeadBoardPeriod ==
    LET q == ev.pre.hist.dead_run
        from0 == IF q = 0 THEN ev.pre.rt = 0 ELSE ev.pre.hist.dead_from0
    IN  (ev.branch = "dead" /\ from0) =>
          /\ ~ev.a /\ ~ev.b /\ ev.pre.dead
          /\ q <= 4
          /\ q < 4 => /\ ~Called(ev, "randomize_state")
                      /\ state = ZeroState
                      /\ reset_timer.current = q + 1
          /\ q = 4 => /\ Count(ev.calls, "randomize_state") = 1
                      /\ IsRandomized(state)
                      /\ reset_timer.current = 0
                      /\ hist.dead_run = 0

\* The 5th iteration of such a run, whose draw left the board all dead: the
\* next run begins at once.
C4_Witness ==
    /\ ev.branch = "dead"
    /\ ev.pre.hist.dead_run = 4
    /\ ev.pre.hist.dead_from0
    /\ Called(ev, "randomize_state")
    /\ done(state)
    /\ shown.board = ZeroState

\* C5: from reset_timer at 4 of 5, complement_timer at 0 of 5, an all-dead
\* board and no button pressed, one iteration randomizes the board, leaves
\* reset_timer at 0 and complement_timer at 1, ticked once and not reset.
C5_EndToEnd ==
    ( /\ ev.branch # "none"
      /\ ev.pre.rt = 4 /\ reset_timer.total = 5
      /\ ev.pre.ct = 0 /\ complement_timer.total = 5
      /\ ev.pre.dead /\ ~ev.a /\ ~ev.b ) =>
        /\ ev.branch = "dead"
        /\ Count(ev.calls, "randomize_state") = 1
        /\ IsRandomized(state)
        /\ reset_timer.current = 0
        /\ complement_timer.current = 1
        /\ Count(ev.calls, "complement_timer.tick") = 1
        /\ ~Called(ev, "complement_timer.reset")

\* That iteration, having drawn a board with a live cell.
C5_Witness ==
    /\ ev.branch = "dead"
    /\ ev.pre.rt = 4 /\ ev.pre.ct = 0 /\ ev.pre.dead /\ ~ev.a /\ ~ev.b
    /\ ~done(state)

\* C6: the Life step is taken exactly in the iterations where neither button
\* is pressed and the board is not all dead; there reset_timer is reset to 0
\* and the board advances by one generation. In no other iteration is the
\* step taken, so it is never applied to an all-dead board.
C6_LifeStep ==
    [][ pc = "decide" =>
          /\ Called(ev', "life::life") <=> (~ev'.a /\ ~ev'.b /\ ~done(state))
          /\ Called(ev', "life::life") =>
               /\ ev'.branch = "life"
               /\ Count(ev'.calls, "life::life") = 1
               /\ state' = life(state)
               /\ reset_timer'.current = 0
               /\ ~Called(ev', "reset_timer.tick")
               /\ ~Called(ev', "randomize_state")
               /\ ~Called(ev', "complement_state") ]_vars

\* A Life step that changed a board with live cells into another one.
C6_Witness ==
    /\ ev.branch = "life"
    /\ ~ev.pre.dead
    /\ ~done(state)
    /\ state # shown.board

\* C7: complement_timer is ticked with auto_reset = false exactly once in
\* every iteration: its count ends at min(previous + 1, total) when the
\* iteration did not complement, at 1 when it did, and the tick never resets
\* it.
C7_ComplementTick ==
    ev.branch # "none" =>
        /\ Count(ev.calls, "complement_timer.tick") = 1
        /\ ev.calls[Len(ev.calls)] = "complement_timer.tick"
        /\ complement_timer.current =
             IF Called(ev, "complement_state") THEN 1
             ELSE Min(ev.pre.ct + 1, complement_timer.total)
        /\ complement_timer.current >= 1

\* The tick that made complement_timer expire, in an iteration of the dead
\* branch: the count stays at the total.
C7_Witness ==
    /\ ev.branch = "dead"
    /\ ev.pre.ct = complement_timer.total - 1
    /\ complement_timer.current = complement_timer.total

\* C8: at startup reset_timer is not expired (current = 0), complement_timer
\* is expired (current = total) and the board has been randomized once; so
\* the first iteration that takes the B branch complements the board,
\* whatever iterations came before it: the board it leaves is the flipped
\* image of the one display.show was given at the top of that iteration.
C8_InitialConditions ==
    /\ ev.branch = "none" =>
         /\ reset_timer.current = 0
         /\ ~finished(reset_timer)
         /\ finished(complement_timer)
         /\ complement_timer.current = complement_timer.total
         /\ IsRandomized(state)
    /\ (ev.branch = "B" /\ ~ev.pre.hist.b_seen) =>
         /\ ev.pre.ct = complement_timer.total
         /\ Called(ev, "complement_state")
         /\ pc = "show" => IsFlipped(shown.board, state)

\* The first B press, after iterations that included dead ones.
C8_Witness ==
    /\ ev.branch = "B"
    /\ ~ev.pre.hist.b_seen
    /\ ev.pre.rt > 0
    /\ Called(ev, "complement_state")

----------------------------------------------------------------------------
(* Properties of ResetTimer *)

\* C9: 0 <= current <= total for both timers of main in every reachable
\* state, and for a timer of any total after any sequence of reset() and
\* tick(true / false) calls begun within that range, ticks after expiry
\* included.
C9_TimerBound ==
    /\ TimerBound(reset_timer)
    /\ TimerBound(complement_timer)
    /\ TimerBound(tm)

\* A tick(false) made after the timer had expired: more ticks than the total.
C9_Witness ==
    /\ tm_out.op = "tick(false)"
    /\ tm.total >= 1
    /\ tm_out.run > tm.total
    /\ tm.current = tm.total

\* C10: for a timer with total >= 1 and current = 0, in a run of tick(false)
\* calls the total-th call returns true and every earlier one returns false;
\* finished() is false before the total-th call and true after it.
C10_TickCount ==
    (tm.total >= 1 /\ tm_out.run >= 0 /\ tm_out.run <= tm.total) =>
        /\ finished(tm) <=> (tm_out.run = tm.total)
        /\ tm_out.run >= 1 => (tm_out.ret <=> (tm_out.run = tm.total))

\* The total-th tick(false) of a timer whose total is above 1.
C10_Witness ==
    /\ tm_out.op = "tick(false)"
    /\ tm.total >= 2
    /\ tm_out.run = tm.total
    /\ tm_out.ret

IsTick(o) == o.op \in {"tick(true)", "tick(false)"}

\* C11: reset() at any current, current = total included, sets current to 0
\* and makes finished() false, except for a timer whose total is 0, for which
\* finished() stays true.
C11_Reset ==
    tm_out.op = "reset" =>
        /\ tm.current = 0
        /\ finished(tm) <=> (tm.total = 0)

\* reset() on an expired timer whose total is not 0.
C11_Witness ==
    /\ tm_out.op = "reset"
    /\ tm.total >= 1
    /\ tm_out.pre = tm.total
    /\ ~finished(tm)

\* The statements of C12 about one call of tick on the timer tm.
TickAsymmetry ==
    IsTick(tm_out) =>
        /\ (tm_out.op = "tick(true)" /\ tm_out.ret) =>
               tm.current = 0 /\ ~finished(tm)
        /\ (tm_out.op = "tick(false)" /\ tm_out.ret) =>
               tm.current = tm.total /\ finished(tm)
        /\ (tm_out.op = "tick(false)" /\ tm_out.pre = tm.total) =>
               tm.current = tm.total
        /\ ~tm_out.ret => tm.current = tm_out.pre + 1

----------------------------------------------------------------------------
(* Properties of pressed, randomize_state and life *)

\* C13: pressed() returns true for the one combination of three reads that
\* are all low and false for the other 7, reads the pin three times in every
\* call, and its result does not depend on the call before; the same for
\* button A and button B.
C13_Debounce ==
    call.fn = "pressed" =>
        /\ call.pin \in Pins
        /\ call.ret <=> (call.samples = <<TRUE, TRUE, TRUE>>)
        /\ call.reads = 3

\* Button B read low, high, low, right after a call that read three lows.
C13_Witness ==
    /\ call.fn = "pressed"
    /\ call.pin = "P0_23"
    /\ call.before_samples = <<TRUE, TRUE, TRUE>>
    /\ call.samples = <<TRUE, FALSE, TRUE>>
    /\ ~call.ret

\* C14: randomize_state overwrites all 25 cells from the one value drawn:
\* cell (i div 5, i mod 5) is 1 iff bit i of the value is 1, for i in 0..24;
\* bits 25..31 and the board's previous contents have no effect.
C14_Randomize ==
    call.fn = "randomize_state" =>
        \A i \in 0 .. 24 :
            state[i \div 5][i % 5] = (IF i \in call.bits THEN 1 ELSE 0)

\* A draw with bits 24, 25 and 31 set and bit 0 clear.
C14_Witness ==
    /\ call.fn = "randomize_state"
    /\ {24, 25, 31} \subseteq call.bits
    /\ 0 \notin call.bits
    /\ state[4][4] = 1
    /\ state[0][0] = 0

\* The cell (r, c) of st, 0 outside the board.
CellOrZero(st, r, c) == IF r \in Rows /\ c \in Rows THEN st[r][c] ELSE 0

\* The live cells around (r, c), one term per neighbour.
Around(st, r, c) ==
    CellOrZero(st, r - 1, c - 1) + CellOrZero(st, r - 1, c) + CellOrZero(st, r - 1, c + 1)
    + CellOrZero(st, r, c - 1) + CellOrZero(st, r, c + 1)
    + CellOrZero(st, r + 1, c - 1) + CellOrZero(st, r + 1, c) + CellOrZero(st, r + 1, c + 1)

\* C15: one Life step replaces the board by the next generation of the board
\* as it was: a live cell stays alive iff 2 or 3 of its neighbours on the
\* board are alive, a dead cell becomes alive iff exactly 3 are, every other
\* cell is dead; an all-dead board stays all dead.
C15_LifeRule ==
    call.fn = "life::life" =>
        /\ \A r \in Rows : \A c \in Rows :
             LET n == Around(call.before, r, c)
                 alive == IF call.before[r][c] = 1 THEN n = 2 \/ n = 3 ELSE n = 3
             IN  state[r][c] = (IF alive THEN 1 ELSE 0)
        /\ done(call.before) => done(state)

\* A step in which the centre cell died of 4 or more live neighbours while a
\* corner cell with a single neighbour died too.
C15_Witness ==
    /\ call.fn = "life::life"
    /\ call.before[2][2] = 1 /\ Around(call.before, 2, 2) >= 4 /\ state[2][2] = 0
    /\ call.before[0][0] = 1 /\ state[0][0] = 0

----------------------------------------------------------------------------
(* More properties of the loop body *)

\* C16: in a run of iterations with B pressed and A not, the board is
\* complemented in exactly one iteration of every 5 (never 5 in a row without,
\* and a complement comes exactly 5 after the one before it in the run) and
\* is left as it was in the others; no Life step is taken, the board is not
\* randomized and reset_timer stays at 0 without being ticked, also when the
\* board is all dead.
C16_HoldingB ==
    LET q == ev.pre.hist.b_quiet
        k == ev.pre.hist.since_compl
    IN  (~ev.a /\ ev.b) =>
          /\ ev.branch = "B"
          /\ ~Called(ev, "life::life")
          /\ ~Called(ev, "randomize_state")
          /\ ~Called(ev, "reset_timer.tick")
          /\ reset_timer.current = 0
          /\ q <= 4
          /\ q = 4 => Called(ev, "complement_state")
          /\ (k >= 1 /\ q = k - 1) => (Called(ev, "complement_state") <=> k = 5)
          /\ pc = "show" =>
               IF Called(ev, "complement_state")
                 THEN IsFlipped(shown.board, state)
                 ELSE state = shown.board

\* B held on an all-dead board: the 5th iteration after a complement, the 4
\* before it having left the dead board alone, complements it.
C16_Witness ==
    /\ ev.branch = "B"
    /\ ev.pre.dead
    /\ ev.pre.hist.b_quiet = 4
    /\ ev.pre.hist.since_compl = 5
    /\ Called(ev, "complement_state")
    /\ ~done(state)

C18_AsStated ==
    shown.n >= 1 =>
        /\ ev.branch # "none"
        /\ ev.calls[Len(ev.calls)] = "complement_timer.tick"

\* C18, amended: each iteration runs display.show, then the decision branch,
\* then the tick. The first board shown is the initial one, before any button
\* is sampled; every later board shown has been through the decision branch
\* and the tick of the iteration before.
C18_ShowFirst ==
    /\ shown.n = 0 => (pc = "show" /\ ev.branch = "none")
    /\ pc = "decide" => (shown.n >= 1 /\ shown.board = state)
    /\ ev.branch # "none" =>
         /\ shown.n >= 1
         /\ ev.calls[1] = "button_a.pressed"
         /\ ev.calls[Len(ev.calls)] = "complement_timer.tick"
    /\ shown.n >= 2 => ev.branch # "none"

\* The initial board is on the display and no button has been sampled yet.
C18_Witness ==
    /\ shown.n = 1
    /\ pc = "decide"
    /\ ev.branch = "none"
    /\ shown.board = state

\* C19, for the timers whose total is not 0: tick returns true iff this call
\* made the timer expire: it was not finished before the call and reached
\* total in it; a tick on a timer that was already expired returns false.
C19_TickReturn ==
    (IsTick(tm_out) /\ tm.total >= 1) =>
        (tm_out.ret <=> (tm_out.pre # tm.total /\ tm_out.pre + 1 = tm.total))

\* C20: at the top of the loop reset_timer is not expired, and its count is
\* above 0 only on an all-dead board; an iteration that ends with a live cell,
\* with a button pressed or with a randomization leaves it at 0.
C20_DeadTimerInvariant ==
    /\ reset_timer.current < reset_timer.total
    /\ ~finished(reset_timer)
    /\ reset_timer.current > 0 => done(state)
    /\ (ev.branch # "none" /\ (ev.a \/ ev.b \/ Called(ev, "randomize_state"))) =>
         reset_timer.current = 0

\* The top of the loop with reset_timer one tick from expiry.
C20_Witness ==
    /\ pc = "show"
    /\ reset_timer.current = reset_timer.total - 1
    /\ done(state)
    /\ ev.branch = "dead"

====
